---- MODULE Spec2Model ----
(***************************************************************************)
(* Lead capture of backend/src/agent.py: the LeadManager profile, the two  *)
(* tools of SDRTools (update_lead_profile, submit_lead) and the read-      *)
(* modify-write of leads_db.json done by LeadManager.save_to_disk.         *)
(*                                                                         *)
(* A conversation is one invocation of entrypoint. lead_state is created   *)
(* once per interpreter, at import; the job executor decides whether two   *)
(* conversations run in one interpreter or in two, so both are modelled.   *)
(* The tools are plain functions called off the event loop, and every      *)
(* interpreter writes the same leads_db.json, so the file operations of    *)
(* the save_to_disk calls of different conversations interleave.           *)
(*                                                                         *)
(* Python values: None is the empty tuple, a str s is the one-tuple <<s>>. *)
(* JSON tokens:   null is <<"null">>, a string s is <<"string", s>>.       *)
(***************************************************************************)
EXTENDS Integers, Sequences, FiniteSets, TLC

\* ------------------------------------------------------------------ bounds
NumConv    == 2   \* conversations (entrypoint invocations) of the worker
MaxCalls   == 3   \* calls (of the tools, or of lead_state's methods) in a run
MaxClock   == 1   \* datetime.now() reads a time in 0..MaxClock

Conv == 1..NumConv
Proc == 1..NumConv

\* ------------------------------------------------------------ Python values
None   == <<>>
Str(s) == <<s>>

\* the strings a caller supplies: the empty string and two others
SuppliedStrings == {"", "Ana", "chatbot"}
\* the fields the enumerated tool calls supply (the others stay omitted)
InputFields == {"name", "use_case"}

\* the keys of LeadManager.profile
Fields == {"name", "company", "email", "use_case", "budget", "timeline"}

\* LeadManager.__init__: every field None
EmptyProfile == [k \in Fields |-> None]

\* bool(v) of an Optional[str]
Truthy(v) == v # None /\ v # Str("")

\* a faulty update: a value supplied for a field that holds one is added to it
updateAccumulates(profile, kwargs) ==
    [k \in DOMAIN profile \cup {j \in DOMAIN kwargs : kwargs[j] # None} |->
        IF k \in DOMAIN kwargs /\ kwargs[k] # None
           THEN IF k \in DOMAIN profile /\ profile[k] # None
                   THEN Str(profile[k][1] \o kwargs[k][1])
                   ELSE kwargs[k]
           ELSE profile[k]]

\* LeadManager.update(**kwargs): every kwarg that is not None is stored
update(profile, kwargs) ==
    [k \in DOMAIN profile \cup {j \in DOMAIN kwargs : kwargs[j] # None} |->
        IF k \in DOMAIN kwargs /\ kwargs[k] # None THEN kwargs[k] ELSE profile[k]]

\* a faulty is_complete: a field counts as set when it is not None
is_completeNotNone(profile) == profile["name"] # None /\ profile["use_case"] # None

\* LeadManager.is_complete
is_complete(profile) == Truthy(profile["name"]) /\ Truthy(profile["use_case"])

\* the times datetime.now() can read
Clock == 0..MaxClock

\* datetime.now().isoformat(): the clock reading, as a str
isoformat(t) == Str(t)

\* a faulty entry: the fields that are None are left out instead of stored as null
MakeEntryOmitsUnset(profile, t) ==
    [k \in {j \in DOMAIN profile : profile[j] # None} \cup {"timestamp"} |->
        IF k = "timestamp" THEN Str(t) ELSE profile[k]]

\* entry = self.profile.copy(); entry["timestamp"] = ...
MakeEntry(profile, t) ==
    [k \in DOMAIN profile \cup {"timestamp"} |->
        IF k = "timestamp" THEN isoformat(t) ELSE profile[k]]

\* a faulty entry: entry = self.profile, so the timestamp is stored in the profile
AfterAlias(profile, t) == MakeEntry(profile, t)

\* self.profile after entry = self.profile.copy(); entry["timestamp"] = ...: the
\* entry is a dict of its own, the profile is as it was
AfterCopy(profile, t) == profile

\* ------------------------------------------------------------------- JSON
ToJson(v)   == IF v = None THEN <<"null">> ELSE <<"string", v[1]>>
FromJson(j) == IF j = <<"null">> THEN None ELSE Str(j[2])

JsonDumpRecord(d) == [k \in DOMAIN d |-> ToJson(d[k])]
JsonLoadRecord(o) == [k \in DOMAIN o |-> FromJson(o[k])]

\* json.dump(existing_leads, f): the text of a list of objects
JsonDump(leads) == [i \in 1..Len(leads) |-> JsonDumpRecord(leads[i])]
\* json.load(f) of the text of a list
JsonLoad(recs)  == [i \in 1..Len(recs) |-> JsonLoadRecord(recs[i])]

\* the characters json.dump(.., indent=4) writes for a value, a member, an object
\* and a list of objects; a timestamp is the 26 characters of isoformat()
IsoLen == 26
ValueLen(k, j) ==
    IF j = <<"null">> THEN 4
    ELSE IF k = "timestamp" THEN IsoLen + 2 ELSE Len(j[2]) + 2

RECURSIVE MembersLen(_, _)
MembersLen(o, keys) ==
    IF keys = {} THEN 0
    ELSE LET k == CHOOSE x \in keys : TRUE
         IN  8 + Len(k) + 4 + ValueLen(k, o[k]) + 2 + MembersLen(o, keys \ {k})

\* "    {\n" members, each followed by ",\n" or "\n", "    }" and ",\n" or "\n"
ObjectLen(o) == 6 + MembersLen(o, DOMAIN o) - 1 + 5 + 2

RECURSIVE ObjectsLen(_)
ObjectsLen(recs) ==
    IF recs = <<>> THEN 0 ELSE ObjectLen(Head(recs)) + ObjectsLen(Tail(recs))

\* "[\n" objects "]"
TextLen(recs) == IF recs = <<>> THEN 2 ELSE 2 + ObjectsLen(recs) - 1 + 1

\* ------------------------------------------------------ leads_db.json
\* kind: "absent"  no file
\*       "empty"   zero bytes (just truncated by open(..., "w"))
\*       "garbage" bytes that are not a JSON document
\*       "nonlist" a JSON document that is not an array
\*       "list"    a JSON array of objects, recs
FileOf(kind, recs) == [kind |-> kind, recs |-> recs]
Absent  == FileOf("absent", <<>>)
Empty   == FileOf("empty", <<>>)
Garbage == FileOf("garbage", <<>>)
NonList == FileOf("nonlist", <<>>)
ListFile(recs) == FileOf("list", recs)

\* a record written by an earlier run of the program
OldRecord == JsonDumpRecord(MakeEntry(update(EmptyProfile, [name |-> Str("Old")]), 0))

\* a faulty check: the file is read whether or not it exists
os_path_existsAlways(f) == TRUE

\* os.path.exists(LEADS_FILE)
os_path_exists(f) == f.kind # "absent"

\* a faulty append: existing_leads = [entry], the records read are dropped
appendDropsPrior(existing_leads, e) == <<e>>

\* existing_leads.append(entry)
append(existing_leads, e) == Append(existing_leads, e)

UpdateAck == "Lead profile updated successfully."
SubmitAck == "Lead has been saved to the database."
Raised    == "exception"
NoResult  == "none"

VARIABLES
    procOf,       \* the interpreter (job process) each conversation runs in
    lead_state,   \* per interpreter: the module-level LeadManager().profile
    file,         \* leads_db.json
    fsMode,       \* "ok", "noread" (open(.., "r") fails), "nowrite" (open(.., "w") fails)
    phase,        \* per conversation: "new", "active", "ended"
    pc,           \* per conversation: "idle", or the step of save_to_disk it is at
    entry,        \* save_to_disk's local entry
    existing_leads, \* save_to_disk's local existing_leads
    result,       \* what the conversation's last tool call returned
    nCalls,       \* tool calls begun so far
    \* history, read by the properties only
    supplied,     \* per conversation and field: the values it passed that were not None
    lastNonEmpty, \* per interpreter and field: the last non-empty value passed to update
    submitted,    \* per conversation: it has called submit_lead
    overlap,      \* per conversation: another save_to_disk ran during its current one
    callPre,      \* per conversation: leads_db.json when its current save_to_disk began
    saved,        \* the records of the save_to_disk calls that returned, in order of return
    file0,        \* leads_db.json as the run found it
    lastEntry,    \* per interpreter: the entry of the last submit_lead on its profile, if
                  \* no update of that profile has come since
    lastUpdate    \* per interpreter: the arguments of the update that was the last tool call on
                  \* its profile, and whether the call before it had the same (1 or 2 in a row)

vars == <<procOf, lead_state, file, fsMode, phase, pc, entry, existing_leads,
          result, nCalls, supplied, lastNonEmpty, submitted, overlap,
          callPre, saved, file0, lastEntry, lastUpdate>>

hist == <<supplied, lastNonEmpty, submitted, overlap, callPre, saved, file0, lastEntry,
          lastUpdate>>

NoEntry == <<>>
NoCall  == <<>>

\* the interpreters are numbered in order of first use
ProcAssignments ==
    {f \in [Conv -> Proc] :
        /\ f[1] = 1
        /\ \A c \in Conv : c > 1 => \E d \in 1..(c-1) : f[c] <= f[d] + 1}

\* the module is imported: lead_state = LeadManager(). The file is what earlier
\* runs or other programs left; a file system that refuses open() is taken with
\* a file that holds a list.
Init ==
    /\ procOf \in ProcAssignments
    /\ lead_state = [p \in Proc |-> EmptyProfile]
    /\ file \in {Absent, Garbage, NonList, ListFile(<<OldRecord>>)}
    /\ fsMode \in {"ok", "noread", "nowrite"}
    /\ fsMode # "ok" => file = ListFile(<<OldRecord>>)
    /\ phase = [c \in Conv |-> "new"]
    /\ pc = [c \in Conv |-> "idle"]
    /\ entry = [c \in Conv |-> NoEntry]
    /\ existing_leads = [c \in Conv |-> <<>>]
    /\ result = [c \in Conv |-> NoResult]
    /\ nCalls = 0
    /\ supplied = [c \in Conv |-> [k \in Fields |-> {}]]
    /\ lastNonEmpty = [p \in Proc |-> [k \in Fields |-> None]]
    /\ submitted = [c \in Conv |-> FALSE]
    /\ overlap = [c \in Conv |-> FALSE]
    /\ callPre = [c \in Conv |-> Absent]
    /\ saved = <<>>
    /\ file0 = file
    /\ lastEntry = [p \in Proc |-> NoEntry]
    /\ lastUpdate = [p \in Proc |-> NoCall]

\* entrypoint(ctx): binds a new SDRTools() to the agent; lead_state is the module's
entrypoint(c) ==
    /\ phase[c] = "new"
    /\ phase' = [phase EXCEPT ![c] = "active"]
    /\ UNCHANGED <<procOf, lead_state, file, fsMode, pc, entry, existing_leads,
                   result, nCalls, hist>>

\* the conversation ends (the caller hangs up); no code of the core runs
EndConversation(c) ==
    /\ phase[c] = "active"
    /\ pc[c] = "idle"
    /\ phase' = [phase EXCEPT ![c] = "ended"]
    /\ UNCHANGED <<procOf, lead_state, file, fsMode, pc, entry, existing_leads,
                   result, nCalls, hist>>

\* the keyword arguments of a tool call: all six names, None where omitted
ToolArgs ==
    {[k \in Fields |-> IF k \in InputFields THEN g[k] ELSE None] :
        g \in [InputFields -> {None} \cup {Str(s) : s \in SuppliedStrings}]}

\* SDRTools.update_lead_profile(name, company, email, use_case, budget, timeline)
update_lead_profile(c, kwargs) ==
    /\ phase[c] = "active"
    /\ pc[c] = "idle"
    /\ nCalls < MaxCalls
    /\ nCalls' = nCalls + 1
    /\ lead_state' = [lead_state EXCEPT ![procOf[c]] = update(@, kwargs)]
    /\ result' = [result EXCEPT ![c] = UpdateAck]
    /\ supplied' = [supplied EXCEPT ![c] =
            [k \in Fields |-> IF kwargs[k] # None THEN @[k] \cup {kwargs[k]} ELSE @[k]]]
    /\ lastNonEmpty' = [lastNonEmpty EXCEPT ![procOf[c]] =
            [k \in Fields |-> IF Truthy(kwargs[k]) THEN kwargs[k] ELSE @[k]]]
    /\ lastUpdate' = [lastUpdate EXCEPT ![procOf[c]] =
            IF @ # NoCall /\ @[1] = kwargs THEN <<kwargs, 2>> ELSE <<kwargs, 1>>]
    /\ lastEntry' = [lastEntry EXCEPT ![procOf[c]] = NoEntry]
    /\ UNCHANGED <<procOf, file, fsMode, phase, pc, entry, existing_leads,
                   submitted, overlap, callPre, saved, file0>>

\* ------------------------------------------------- LeadManager.save_to_disk
OthersSaving(c) == {d \in Conv \ {c} : pc[d] # "idle"}

\* the call returns or raises: the locals are gone
Leave(c, res) ==
    /\ pc' = [pc EXCEPT ![c] = "idle"]
    /\ result' = [result EXCEPT ![c] = res]
    /\ entry' = [entry EXCEPT ![c] = NoEntry]
    /\ existing_leads' = [existing_leads EXCEPT ![c] = <<>>]
    /\ overlap' = [overlap EXCEPT ![c] = FALSE]
    /\ callPre' = [callPre EXCEPT ![c] = Absent]
    /\ saved' = IF res = SubmitAck THEN Append(saved, JsonDumpRecord(entry[c])) ELSE saved

\* SDRTools.submit_lead() enters save_to_disk: the entry is built with the time
\* now that datetime.now() reads, and
\* os.path.exists decides whether the file is read
submit_lead_begin(c, now) ==
    /\ phase[c] = "active"
    /\ pc[c] = "idle"
    /\ nCalls < MaxCalls
    /\ nCalls' = nCalls + 1
    /\ entry' = [entry EXCEPT ![c] = MakeEntry(lead_state[procOf[c]], now)]
    /\ IF os_path_exists(file)
          THEN /\ pc' = [pc EXCEPT ![c] = "read"]
               /\ UNCHANGED existing_leads
          ELSE /\ pc' = [pc EXCEPT ![c] = "write"]
               /\ existing_leads' = [existing_leads EXCEPT ![c] = append(<<>>, entry'[c])]
    /\ submitted' = [submitted EXCEPT ![c] = TRUE]
    /\ overlap' = [d \in Conv |->
            IF d = c THEN OthersSaving(c) # {}
            ELSE IF pc[d] # "idle" THEN TRUE ELSE overlap[d]]
    /\ callPre' = [callPre EXCEPT ![c] = file]
    /\ lastUpdate' = [lastUpdate EXCEPT ![procOf[c]] = NoCall]
    /\ lastEntry' = [lastEntry EXCEPT ![procOf[c]] = entry'[c]]
    /\ lead_state' = [lead_state EXCEPT ![procOf[c]] = AfterCopy(@, now)]
    /\ UNCHANGED <<procOf, file, fsMode, phase, result,
                   supplied, lastNonEmpty, saved, file0>>

\* with open(LEADS_FILE, "r") as f: existing_leads = json.load(f), except
\* json.JSONDecodeError: pass; then existing_leads.append(entry)
save_to_disk_read(c) ==
    /\ pc[c] = "read"
    /\ \/ \* open() raises PermissionError or FileNotFoundError: not caught
          /\ fsMode = "noread" \/ file.kind = "absent"
          /\ Leave(c, Raised)
       \/ \* a JSON array
          /\ fsMode # "noread"
          /\ file.kind = "list"
          /\ existing_leads' = [existing_leads EXCEPT ![c] = append(JsonLoad(file.recs), entry[c])]
          /\ pc' = [pc EXCEPT ![c] = "write"]
          /\ UNCHANGED <<result, entry, overlap, callPre, saved>>
       \/ \* json.JSONDecodeError: existing_leads stays []
          /\ fsMode # "noread"
          /\ file.kind \in {"empty", "garbage"}
          /\ existing_leads' = [existing_leads EXCEPT ![c] = append(<<>>, entry[c])]
          /\ pc' = [pc EXCEPT ![c] = "write"]
          /\ UNCHANGED <<result, entry, overlap, callPre, saved>>
       \/ \* json.load returns a dict, str, number...: .append raises, not caught
          /\ fsMode # "noread"
          /\ file.kind = "nonlist"
          /\ Leave(c, Raised)
    /\ UNCHANGED <<procOf, lead_state, file, fsMode, phase, nCalls,
                   supplied, lastNonEmpty, submitted, file0, lastEntry, lastUpdate>>

\* open(LEADS_FILE, "w"): truncates the file, or raises
save_to_disk_open(c) ==
    /\ pc[c] = "write"
    /\ \/ /\ fsMode = "nowrite"
          /\ Leave(c, Raised)
          /\ UNCHANGED file
       \/ /\ fsMode # "nowrite"
          /\ file' = Empty
          /\ pc' = [pc EXCEPT ![c] = "dump"]
          /\ UNCHANGED <<result, entry, existing_leads, overlap, callPre, saved>>
    /\ UNCHANGED <<procOf, lead_state, fsMode, phase, nCalls,
                   supplied, lastNonEmpty, submitted, file0, lastEntry, lastUpdate>>

\* json.dump(existing_leads, f, indent=4) and the close of f: the text is written
\* from offset 0. Bytes another writer has put there since this writer's truncation
\* are overwritten; what lies beyond the end of this writer's text stays.
\* Text that is at least as long as what is there replaces it; shorter text leaves
\* a tail behind the closing bracket, which no JSON parser accepts. How long a torn
\* content is, is not kept: both outcomes.
Written(f, text) ==
    IF f.kind = "empty"
       THEN {ListFile(text)}
       ELSE IF f.kind = "list"
               THEN IF TextLen(f.recs) <= TextLen(text) THEN {ListFile(text)} ELSE {Garbage}
               ELSE {ListFile(text), Garbage}

save_to_disk_dump(c) ==
    /\ pc[c] = "dump"
    /\ file' \in Written(file, JsonDump(existing_leads[c]))
    /\ Leave(c, SubmitAck)
    /\ UNCHANGED <<procOf, lead_state, fsMode, phase, nCalls,
                   supplied, lastNonEmpty, submitted, file0, lastEntry, lastUpdate>>

Next ==
    \/ \E c \in Conv : entrypoint(c)
    \/ \E c \in Conv : EndConversation(c)
    \/ \E c \in Conv, kwargs \in ToolArgs : update_lead_profile(c, kwargs)
    \/ \E c \in Conv, now \in Clock : submit_lead_begin(c, now)
    \/ \E c \in Conv : save_to_disk_read(c)
    \/ \E c \in Conv : save_to_disk_open(c)
    \/ \E c \in Conv : save_to_disk_dump(c)

Spec == Init /\ [][Next]_vars

\* ------------------------------------- lead_state's methods, called directly
\* lead_state is a module global: code of the interpreter can call update with any
\* keyword names (update takes **kwargs) and can call is_complete, which no tool does.
\* One conversation, one interpreter, a file that is absent or holds a list.

\* a keyword name that is not a key of the profile
UnknownField == "phone"

\* the names the enumerated direct calls pass: the tool's two, one of the other
\* four fields, and the unknown one
ManagerNames == InputFields \cup {"company", UnknownField}

\* **kwargs of lead_state.update(...): one or two names, known or not
ManagerArgs ==
    UNION {[K -> {None} \cup {Str(s) : s \in SuppliedStrings}] :
              K \in {S \in SUBSET ManagerNames : Cardinality(S) \in 1..2}}

\* a bool returned to the caller
PyBool(b) == IF b THEN "True" ELSE "False"

\* lead_state.update(**kwargs); returns None
lead_state_update(c, kwargs) ==
    /\ phase[c] = "active"
    /\ pc[c] = "idle"
    /\ nCalls < MaxCalls
    /\ nCalls' = nCalls + 1
    /\ lead_state' = [lead_state EXCEPT ![procOf[c]] = update(@, kwargs)]
    /\ result' = [result EXCEPT ![c] = NoResult]
    /\ supplied' = [supplied EXCEPT ![c] =
            [k \in Fields |-> IF k \in DOMAIN kwargs /\ kwargs[k] # None
                                 THEN @[k] \cup {kwargs[k]} ELSE @[k]]]
    /\ lastNonEmpty' = [lastNonEmpty EXCEPT ![procOf[c]] =
            [k \in Fields |-> IF k \in DOMAIN kwargs /\ Truthy(kwargs[k])
                                 THEN kwargs[k] ELSE @[k]]]
    /\ lastUpdate' = [lastUpdate EXCEPT ![procOf[c]] =
            IF @ # NoCall /\ @[1] = kwargs THEN <<kwargs, 2>> ELSE <<kwargs, 1>>]
    /\ lastEntry' = [lastEntry EXCEPT ![procOf[c]] = NoEntry]
    /\ UNCHANGED <<procOf, file, fsMode, phase, pc, entry, existing_leads,
                   submitted, overlap, callPre, saved, file0>>

\* lead_state.is_complete(); returns the bool
lead_state_is_complete(c) ==
    /\ phase[c] = "active"
    /\ pc[c] = "idle"
    /\ nCalls < MaxCalls
    /\ nCalls' = nCalls + 1
    /\ result' = [result EXCEPT ![c] = PyBool(is_complete(lead_state[procOf[c]]))]
    /\ UNCHANGED <<procOf, lead_state, file, fsMode, phase, pc, entry,
                   existing_leads, hist>>

\* the conversation whose code makes the calls
Caller == 1

ManagerInit ==
    /\ Init
    /\ procOf = [c \in Conv |-> 1]
    /\ fsMode = "ok"
    /\ file \in {Absent, ListFile(<<OldRecord>>)}

ManagerNext ==
    \/ entrypoint(Caller)
    \/ \E kwargs \in ManagerArgs : lead_state_update(Caller, kwargs)
    \/ lead_state_is_complete(Caller)
    \/ \E now \in Clock : submit_lead_begin(Caller, now)
    \/ save_to_disk_read(Caller)
    \/ save_to_disk_open(Caller)
    \/ save_to_disk_dump(Caller)

SpecManager == ManagerInit /\ [][ManagerNext]_vars

\* ------------------------------------------------------------ properties
AllIdle == \A c \in Conv : pc[c] = "idle"

Count(seq, r) == Cardinality({i \in 1..Len(seq) : seq[i] = r})

\* conversation c's tool call (a submit_lead) ends in this step
Completes(c) == pc[c] # "idle" /\ pc'[c] = "idle"
\* conversation c's submit_lead starts in this step
Begins(c) == pc[c] = "idle" /\ pc'[c] # "idle"
\* this step is an update_lead_profile call of conversation c
Updates(c) == \E kwargs \in ToolArgs : update_lead_profile(c, kwargs)

\* what a reader of the profile tells apart: an empty field (None or "") from a
\* non-empty value
Visible(profile) == [k \in DOMAIN profile |-> IF Truthy(profile[k]) THEN profile[k] ELSE None]

\* C1: when the submit_lead calls of several sessions interleave their read, append
\* and write-back steps in any order, then once all of them have returned the
\* store holds every submitted record (as often as it was submitted).
C1_NoLostUpdate ==
    AllIdle =>
        \A i \in 1..Len(saved) :
            /\ file.kind = "list"
            /\ Count(file.recs, saved[i]) >= Count(saved, saved[i])

\* C2: while conversations a and b are both active, an update_lead_profile of a
\* never changes what b reads from its profile (empty, or the non-empty value), and
\* the record b's submit_lead builds holds no non-empty value that b did not
\* supply itself.
C2_PrivateProfile ==
    [][\A a \in Conv : \A b \in Conv \ {a} :
          (phase[a] = "active" /\ phase[b] = "active") =>
             /\ Updates(a) => Visible(lead_state'[procOf[b]]) = Visible(lead_state[procOf[b]])
             /\ Begins(b) =>
                   \A k \in Fields : Truthy(entry'[b][k]) => entry'[b][k] \in supplied[b][k]
      ]_vars

\* C3: each field of a profile holds the last non-empty value supplied for it by
\* the update_lead_profile calls so far, and is empty (None or "") if none was; a
\* None or "" argument never overwrites a value.
C3_LastNonEmptyWins ==
    \A p \in Proc : \A k \in Fields :
        Visible(lead_state[p])[k] = lastNonEmpty[p][k]

\* C4: a profile field that holds a non-empty value holds a non-empty value after
\* every step (no tool call resets it to empty).
C4_SetFieldStaysSet ==
    [][\A p \in Proc : \A k \in Fields :
          Truthy(lead_state[p][k]) => Truthy(lead_state'[p][k])]_vars

\* C5: a submit_lead that starts on an absent file or on a readable list of
\* records, with a working file system and no other append in progress during it,
\* returns its acknowledgement and leaves the store holding the prior records,
\* unchanged and in order, followed by exactly one new record: the entry of the
\* call, whether or not the profile is complete or was submitted before.
C5_AppendsExactlyOne ==
    [][\A c \in Conv :
          (/\ Completes(c)
           /\ ~overlap[c]
           /\ fsMode = "ok"
           /\ callPre[c].kind \in {"absent", "list"})
          => /\ result'[c] = SubmitAck
             /\ file' = ListFile(callPre[c].recs \o <<JsonDumpRecord(entry[c])>>)
      ]_vars

\* two submit_lead calls, no update_lead_profile before them (the profile is
\* incomplete), have put two records behind the old one
C5_Witness ==
    /\ AllIdle
    /\ fsMode = "ok"
    /\ nCalls = 2
    /\ Len(saved) = 2
    /\ file = ListFile(<<OldRecord>> \o saved)
    /\ \A c \in Conv : ~is_complete(lead_state[procOf[c]])

\* C6: is_complete() is true of a profile exactly when a non-empty name and a
\* non-empty use_case have each been supplied at least once since it was fresh.
C6_CompleteIffSupplied ==
    \A p \in Proc :
        is_complete(lead_state[p]) <=>
            (lastNonEmpty[p]["name"] # None /\ lastNonEmpty[p]["use_case"] # None)

\* the content save_to_disk found cannot be read as a sequence of records
Unreadable(f, mode) ==
    \/ f.kind \in {"empty", "garbage", "nonlist"}
    \/ f.kind = "list" /\ mode = "noread"

\* C7: a submit_lead that finds content it cannot read as a sequence of records
\* (and runs alone, on a writable file) returns its acknowledgement and leaves a
\* store of exactly one record, the new one.
C7_UnreadableTreatedAsEmpty ==
    [][\A c \in Conv :
          (/\ Completes(c)
           /\ ~overlap[c]
           /\ fsMode # "nowrite"
           /\ Unreadable(callPre[c], fsMode))
          => /\ result'[c] = SubmitAck
             /\ file' = ListFile(<<JsonDumpRecord(entry[c])>>)
      ]_vars

\* C8: no tool call ends in an exception.
C8_NoToolCallRaises == \A c \in Conv : result[c] # Raised

\* C9: a conversation starts with a profile whose six fields are all empty.
C9_StartsEmpty ==
    [][\A c \in Conv :
          (phase[c] = "new" /\ phase'[c] = "active")
          => Visible(lead_state'[procOf[c]]) = EmptyProfile]_vars

\* C10: update_lead_profile leaves the store alone, and a non-empty value that a
\* conversation which ended without submit_lead supplied is in no record another
\* conversation builds afterwards (unless that conversation supplied it too).
C10_UnsubmittedIsDiscarded ==
    [][/\ \A c \in Conv : Updates(c) => file' = file
       /\ \A a \in Conv : \A b \in Conv \ {a} :
            (phase[a] = "ended" /\ ~submitted[a] /\ Begins(b))
            => \A k \in Fields :
                  (Truthy(entry'[b][k]) /\ entry'[b][k] \in supplied[a][k])
                  => entry'[b][k] \in supplied[b][k]
      ]_vars

\* the record a call made at time t on this profile is to store
Snapshot(profile, t) ==
    [k \in Fields \cup {"timestamp"} |-> IF k \in Fields THEN profile[k] ELSE Str(t)]

\* the record of the scenario, as stored: name "Ana", use_case "chatbot", the
\* other four fields null, and the time of the call
ScenarioRecord(t) ==
    [k \in Fields \cup {"timestamp"} |->
        CASE k = "name" -> <<"string", "Ana">>
          [] k = "use_case" -> <<"string", "chatbot">>
          [] k = "timestamp" -> <<"string", t>>
          [] OTHER -> <<"null">>]

\* what the scenario's conversation has supplied: name "Ana", use_case "chatbot"
ScenarioSupplied ==
    [k \in Fields |->
        CASE k = "name" -> {Str("Ana")}
          [] k = "use_case" -> {Str("chatbot")}
          [] OTHER -> {}]

\* C11: the record of a submit_lead is a snapshot. The entry the call builds holds
\* the six profile values of that moment and one timestamp; no step taken while the
\* call runs changes the entry; the call stores it as the last record; an
\* update_lead_profile leaves the store alone and a later submit_lead writes back
\* every record it read exactly as it was stored. In the scenario (absent file,
\* one conversation: name "Ana" and use_case "chatbot" supplied by two updates,
\* then submit_lead) the store ends as the one record ScenarioRecord.
C11_RecordIsSnapshot ==
    [][\A c \in Conv :
          /\ Begins(c) =>
                \E t \in Clock : entry'[c] = Snapshot(lead_state[procOf[c]], t)
          /\ (pc[c] # "idle" /\ pc'[c] # "idle") => entry'[c] = entry[c]
          /\ (Completes(c) /\ result'[c] = SubmitAck /\ file'.kind = "list") =>
                /\ file'.recs = JsonDump(existing_leads[c])
                /\ file'.recs[Len(file'.recs)] = JsonDumpRecord(entry[c])
          /\ (pc[c] = "read" /\ pc'[c] = "write" /\ file.kind = "list") =>
                /\ Len(existing_leads'[c]) = Len(file.recs) + 1
                /\ \A i \in 1..Len(file.recs) :
                      JsonDumpRecord(existing_leads'[c][i]) = file.recs[i]
          /\ Updates(c) => file' = file
          /\ (/\ Completes(c)
              /\ fsMode = "ok"
              /\ callPre[c] = Absent
              /\ nCalls = 3
              /\ saved = <<>>
              /\ \A d \in Conv \ {c} : phase[d] = "new"
              /\ supplied[c] = ScenarioSupplied)
             => /\ result'[c] = SubmitAck
                /\ \E t \in Clock : file' = ListFile(<<ScenarioRecord(t)>>)
      ]_vars

\* the scenario has run: two updates and a submit_lead of one conversation have
\* left the one record
C11_Witness ==
    /\ AllIdle
    /\ nCalls = 3
    /\ Len(saved) = 1
    /\ \E c \in Conv :
          /\ supplied[c] = ScenarioSupplied
          /\ result[c] = SubmitAck
          /\ \A d \in Conv \ {c} : phase[d] = "new"
    /\ \E t \in Clock : file = ListFile(<<ScenarioRecord(t)>>)

\* this step is an update_lead_profile on interpreter p's profile with the
\* arguments of the update_lead_profile that was the tool call before it
RepeatsUpdate(p) ==
    /\ nCalls' = nCalls + 1
    /\ lastUpdate'[p] # NoCall
    /\ lastUpdate'[p] # lastUpdate[p]
    /\ lastUpdate'[p][2] = 2

\* C12: update_lead_profile is idempotent: a call with the arguments of the call
\* just made on the same profile leaves the profile as the first call left it.
C12_UpdateIdempotent ==
    [][\A p \in Proc : RepeatsUpdate(p) => lead_state'[p] = lead_state[p]]_vars

\* update_lead_profile(name="Ana") has been called twice in a row
C12_Witness ==
    \E p \in Proc :
        /\ lastUpdate[p] # NoCall
        /\ lastUpdate[p][2] = 2
        /\ lastUpdate[p][1]["name"] = Str("Ana")
        /\ lastUpdate[p][1]["use_case"] = None
        /\ lead_state[p]["name"] = Str("Ana")

\* a field that holds a string of at least one character
NonEmpty(profile, k) == profile[k] # None /\ profile[k] # Str("")

\* C13: is_complete() returns true exactly when the profile's name and use_case
\* are both non-empty, whatever the other fields hold, and the call changes
\* neither the profile nor the store.
C13_IsCompleteReadsNameAndUseCase ==
    [][\A c \in Conv :
          lead_state_is_complete(c) =>
             /\ result'[c] = PyBool(NonEmpty(lead_state[procOf[c]], "name")
                                    /\ NonEmpty(lead_state[procOf[c]], "use_case"))
             /\ lead_state' = lead_state
             /\ file' = file
      ]_vars

\* is_complete() has returned True on a profile whose company is set, and the
\* profile is as the two update calls left it
C13_Witness ==
    /\ result[Caller] = PyBool(TRUE)
    /\ nCalls = 3
    /\ lead_state[procOf[Caller]] =
          [EmptyProfile EXCEPT !["name"] = Str("Ana"), !["use_case"] = Str("chatbot"),
                               !["company"] = Str("Ana")]

\* the elements of a, in a's order, are among the elements of b
IsSubseq(a, b) ==
    \E f \in [1..Len(a) -> 1..Len(b)] :
        /\ \A i \in 1..Len(a) : b[f[i]] = a[i]
        /\ \A i \in 1..Len(a) : \A j \in 1..Len(a) : i < j => f[i] < f[j]

\* C14: the records of a readable store are never lost: once the submit_lead calls
\* of the sessions, interleaved in any way, have all returned, a store that holds a
\* list holds every record it held before those calls, in the original order.
C14_StoredRecordsKept ==
    (AllIdle /\ fsMode = "ok" /\ file0.kind = "list" /\ file.kind = "list")
        => IsSubseq(file0.recs, file.recs)

\* C15: an update with a keyword name outside the six known fields is ignored: no
\* profile holds a non-empty value under any other name than its six fields, and no
\* record in the store holds one under any other name than those six and timestamp.
\* (An empty value under such a name is left to C3, which is about empty inputs.)
C15_UnknownFieldIgnored ==
    /\ \A p \in Proc : \A k \in DOMAIN lead_state[p] :
            Truthy(lead_state[p][k]) => k \in Fields
    /\ file.kind = "list" =>
          \A i \in 1..Len(file.recs) :
              \A k \in DOMAIN file.recs[i] \ (Fields \cup {"timestamp"}) :
                  ~Truthy(FromJson(file.recs[i][k]))

\* C16: with no backing file the store is an empty sequence: a submit_lead that
\* finds no file, the first to write and alone while it runs, does not try to read,
\* returns its acknowledgement and leaves a store holding exactly one record, its own.
C16_MissingFileIsEmptyStore ==
    [][\A c \in Conv :
          /\ (Begins(c) /\ file.kind = "absent") =>
                /\ pc'[c] = "write"
                /\ existing_leads'[c] = <<entry'[c]>>
          /\ (Completes(c) /\ callPre[c].kind = "absent" /\ ~overlap[c]) =>
                /\ result'[c] = SubmitAck
                /\ file'.kind = "list"
                /\ Len(file'.recs) = 1
                /\ JsonLoadRecord(file'.recs[1]) = entry[c]
      ]_vars

\* the run found no file; one submit_lead, of the profile named Ana, has returned
C16_Witness ==
    /\ file0.kind = "absent"
    /\ AllIdle
    /\ Len(saved) = 1
    /\ \E c \in Conv : result[c] = SubmitAck
    /\ file = ListFile(saved)
    /\ file.recs[1]["name"] = ToJson(Str("Ana"))

\* this step is a step of some conversation's submit_lead
SubmitStep == \E c \in Conv : pc'[c] # pc[c]

\* C17: submit_lead leaves the profile unchanged: no step of it changes a field, and
\* a submit_lead that follows another on the same profile with no update between
\* them builds a record that agrees with the earlier one on all six fields.
C17_SubmitLeavesProfile ==
    [][/\ SubmitStep => lead_state' = lead_state
       /\ \A c \in Conv :
             (Begins(c) /\ lastEntry[procOf[c]] # NoEntry) =>
                 \A k \in Fields : entry'[c][k] = lastEntry[procOf[c]][k]
      ]_vars

\* the profile named Ana was submitted twice in a row, at different times: the
\* store holds the two records, and the profile still holds the name
C17_Witness ==
    /\ AllIdle
    /\ file0.kind = "absent"
    /\ Len(saved) = 2
    /\ file = ListFile(saved)
    /\ saved[1]["timestamp"] # saved[2]["timestamp"]
    /\ \A k \in Fields : saved[1][k] = saved[2][k]
    /\ saved[1]["name"] = ToJson(Str("Ana"))
    /\ \E p \in Proc : lastEntry[p] # NoEntry /\ lead_state[p]["name"] = Str("Ana")

====
